---- MODULE Spec2Model ----
\* Model of examples/screen_address.py: chain-aware canonicalization,
\* syntactic validation, exact-match screening and the sanctioned-set loader.
\*
\* A Python str is modelled as a sequence of one-character strings, so that
\* strip(), lower(), upper(), startswith() and the three regular expressions
\* are computed character by character, as the interpreter computes them.
\* The alphabet is ASCII.
EXTENDS Integers, Sequences, FiniteSets, TLC

\* ---------------------------------------------------------------- bounds
\* Number of leading body characters of a generated address that range over
\* the whole test alphabet (the rest of the body is a fixed filler).
NVar == 2
\* Longest `addresses` array of a generated document.
MaxDocLen == 2

\* ------------------------------------------------- constants of the source
\* EVM_RE: {40}
EvmHexDigits == 40
\* BTC_BECH32_RE: {20,90}
Bech32MinData == 20
Bech32MaxData == 90
\* BTC_BASE58_RE: {25,34}
Base58MinTail == 25
Base58MaxTail == 34
\* risk_score of a hit and of a miss
RiskHit == 100
RiskNone == 0

\* ------------------------------------------------------- str primitives
LowerMap ==
    ("A" :> "a") @@ ("B" :> "b") @@ ("C" :> "c") @@ ("D" :> "d") @@ ("E" :> "e") @@
    ("F" :> "f") @@ ("G" :> "g") @@ ("H" :> "h") @@ ("I" :> "i") @@ ("J" :> "j") @@
    ("K" :> "k") @@ ("L" :> "l") @@ ("M" :> "m") @@ ("N" :> "n") @@ ("O" :> "o") @@
    ("P" :> "p") @@ ("Q" :> "q") @@ ("R" :> "r") @@ ("S" :> "s") @@ ("T" :> "t") @@
    ("U" :> "u") @@ ("V" :> "v") @@ ("W" :> "w") @@ ("X" :> "x") @@ ("Y" :> "y") @@
    ("Z" :> "z")

UpperMap ==
    ("a" :> "A") @@ ("b" :> "B") @@ ("c" :> "C") @@ ("d" :> "D") @@ ("e" :> "E") @@
    ("f" :> "F") @@ ("g" :> "G") @@ ("h" :> "H") @@ ("i" :> "I") @@ ("j" :> "J") @@
    ("k" :> "K") @@ ("l" :> "L") @@ ("m" :> "M") @@ ("n" :> "N") @@ ("o" :> "O") @@
    ("p" :> "P") @@ ("q" :> "Q") @@ ("r" :> "R") @@ ("s" :> "S") @@ ("t" :> "T") @@
    ("u" :> "U") @@ ("v" :> "V") @@ ("w" :> "W") @@ ("x" :> "X") @@ ("y" :> "Y") @@
    ("z" :> "Z")

LowerLetters == DOMAIN UpperMap
UpperLetters == DOMAIN LowerMap
Digits == {"0", "1", "2", "3", "4", "5", "6", "7", "8", "9"}
\* the characters str.strip() removes
Whitespace == {" ", "\t", "\n", "\r", "\f"}

lowerCh(ch) == IF ch \in UpperLetters THEN LowerMap[ch] ELSE ch
upperCh(ch) == IF ch \in LowerLetters THEN UpperMap[ch] ELSE ch

\* str.lower()
lower(s) == [i \in 1..Len(s) |-> lowerCh(s[i])]
\* str.upper()
upper(s) == [i \in 1..Len(s) |-> upperCh(s[i])]

SetMin(S) == CHOOSE x \in S : \A y \in S : x <= y
SetMax(S) == CHOOSE x \in S : \A y \in S : x >= y

\* str.strip(): drop leading and trailing whitespace
strip(s) ==
    LET keep == {i \in 1..Len(s) : s[i] \notin Whitespace}
    IN  IF keep = {} THEN <<>> ELSE SubSeq(s, SetMin(keep), SetMax(keep))

\* str.startswith(p)
startswith(s, p) == Len(s) >= Len(p) /\ SubSeq(s, 1, Len(p)) = p

\* ------------------------------------------------------ regular expressions
\* [a-fA-F0-9]
HexClass == {"a", "b", "c", "d", "e", "f", "A", "B", "C", "D", "E", "F"} \cup Digits
\* [a-km-zA-HJ-NP-Z1-9]
Base58Class ==
    ((LowerLetters \ {"l"}) \cup (UpperLetters \ {"I", "O"})) \cup (Digits \ {"0"})
\* [a-z0-9] under re.IGNORECASE
AlnumIgnoreCase == (LowerLetters \cup UpperLetters) \cup Digits

Bc1 == <<"b", "c", "1">>
Tb1 == <<"t", "b", "1">>
Bcrt1 == <<"b", "c", "r", "t", "1">>
\* (bc1|tb1|bcrt1)
SegwitPrefixes == {Bc1, Tb1, Bcrt1}

\* A pattern ending in `$` (no re.MULTILINE) matches at the end of the string
\* and also just before one trailing newline.
DollarEnds(s) ==
    {s} \cup (IF Len(s) > 0 /\ s[Len(s)] = "\n" THEN {SubSeq(s, 1, Len(s) - 1)} ELSE {})

\* EVM_RE compiled with re.IGNORECASE: `0X` is taken for `0x`
EvmBodyMatch_ignorecase(s) ==
    /\ Len(s) = 2 + EvmHexDigits
    /\ s[1] = "0"
    /\ s[2] \in {"x", "X"}
    /\ \A i \in 3..Len(s) : s[i] \in HexClass

\* ^0x[a-fA-F0-9]{40}$
EvmBodyMatch(s) ==
    /\ Len(s) = 2 + EvmHexDigits
    /\ s[1] = "0"
    /\ s[2] = "x"
    /\ \A i \in 3..Len(s) : s[i] \in HexClass

EVM_RE(s) == \E t \in DollarEnds(s) : EvmBodyMatch(t)

\* ^(bc1|tb1|bcrt1)[a-z0-9]{20,90}$ with re.IGNORECASE
Bech32BodyMatch(s) ==
    \E p \in SegwitPrefixes :
        /\ Len(s) >= Len(p) + Bech32MinData
        /\ Len(s) <= Len(p) + Bech32MaxData
        /\ lower(SubSeq(s, 1, Len(p))) = p
        /\ \A i \in (Len(p) + 1)..Len(s) : s[i] \in AlnumIgnoreCase

BTC_BECH32_RE(s) == \E t \in DollarEnds(s) : Bech32BodyMatch(t)

\* ^[13][a-km-zA-HJ-NP-Z1-9]{25,34}$
Base58BodyMatch(s) ==
    /\ Len(s) >= 1 + Base58MinTail
    /\ Len(s) <= 1 + Base58MaxTail
    /\ s[1] \in {"1", "3"}
    /\ \A i \in 2..Len(s) : s[i] \in Base58Class

BTC_BASE58_RE(s) == \E t \in DollarEnds(s) : Base58BodyMatch(t)

\* ------------------------------------------------------------- chain tags
ETH == <<"E", "T", "H">>
EVM == <<"E", "V", "M">>
ARB == <<"A", "R", "B">>
BSC == <<"B", "S", "C">>
OP == <<"O", "P">>
MATIC == <<"M", "A", "T", "I", "C">>
XBT == <<"X", "B", "T">>
BTC == <<"B", "T", "C">>
TRX == <<"T", "R", "X">>

\* {"ETH", "EVM", "ARB", "BSC", "OP", "MATIC"}
EvmFamily == {ETH, EVM, ARB, BSC, OP, MATIC}
\* {"XBT", "BTC"}
BitcoinTickers == {XBT, BTC}

\* canonicalize with the EVM branch returning `a` instead of `a.lower()`
canonicalize_keepcase(chain, address) ==
    LET a == strip(address)
        c == strip(upper(chain))
    IN  IF c \in EvmFamily THEN a
        ELSE IF c \in BitcoinTickers
             THEN IF \E p \in SegwitPrefixes : startswith(lower(a), p)
                  THEN lower(a)
                  ELSE a
             ELSE a

\* canonicalize with the Bitcoin branch folding every address, base58 too
canonicalize_foldall(chain, address) ==
    LET a == strip(address)
        c == strip(upper(chain))
    IN  IF c \in EvmFamily \cup BitcoinTickers THEN lower(a) ELSE a

\* canonicalize with the EVM branch returning `a.lower()[2:]`
canonicalize_noprefix(chain, address) ==
    LET a == strip(address)
        c == strip(upper(chain))
    IN  IF c \in EvmFamily THEN SubSeq(lower(a), 3, Len(a))
        ELSE IF c \in BitcoinTickers
             THEN IF \E p \in SegwitPrefixes : startswith(lower(a), p)
                  THEN lower(a)
                  ELSE a
             ELSE a

\* ---------------------------------------------------------- canonicalize
canonicalize(chain, address) ==
    LET a == strip(address)
        c == strip(upper(chain))
    IN  IF c \in EvmFamily THEN lower(a)
        ELSE IF c \in BitcoinTickers
             THEN IF \E p \in SegwitPrefixes : startswith(lower(a), p)
                  THEN lower(a)
                  ELSE a
             ELSE a

\* ---------------------------------------------------- syntactic_validate
syntactic_validate(chain, address) ==
    LET c == strip(upper(chain))
        a == strip(address)
    IN  IF c \in EvmFamily THEN EVM_RE(a)
        ELSE IF c \in BitcoinTickers
             THEN BTC_BECH32_RE(lower(a)) \/ BTC_BASE58_RE(a)
             ELSE TRUE

\* ---------------------------------------------------- screen_exact_match
ReasonInvalid == "invalid_address_syntax"
ReasonHit == "exact_match_authoritative_sanctions_address"
ReasonMiss == "no_exact_match"

ScreenResult(address, chain, match, risk_score, reason, list_version) ==
    [address |-> address, chain |-> chain, match |-> match,
     risk_score |-> risk_score, reason |-> reason, list_version |-> list_version]

\* the lookup key built from the dispatch tag `c` instead of chain.upper()
LookupKey_stripped(chain, address) ==
    <<strip(upper(chain)), canonicalize(chain, address)>>

\* the lookup key of line 117
LookupKey(chain, address) == <<upper(chain), canonicalize(chain, address)>>

\* screen_exact_match with the membership test ahead of the validation
screen_exact_match_lookupfirst(chain, address, sanctioned_set, list_version) ==
    IF LookupKey(chain, address) \in sanctioned_set
    THEN ScreenResult(address, chain, TRUE, RiskHit, ReasonHit, list_version)
    ELSE IF ~syntactic_validate(chain, address)
         THEN ScreenResult(address, chain, FALSE, RiskNone, ReasonInvalid, list_version)
         ELSE ScreenResult(address, chain, FALSE, RiskNone, ReasonMiss, list_version)

screen_exact_match(chain, address, sanctioned_set, list_version) ==
    IF ~syntactic_validate(chain, address)
    THEN ScreenResult(address, chain, FALSE, RiskNone, ReasonInvalid, list_version)
    ELSE IF LookupKey(chain, address) \in sanctioned_set
         THEN ScreenResult(address, chain, TRUE, RiskHit, ReasonHit, list_version)
         ELSE ScreenResult(address, chain, FALSE, RiskNone, ReasonMiss, list_version)

\* ------------------------------------------------------ values of main()
\* ("ETH", "0x7f367cc41522ce07553e823bf3be79a889debe1b")
DemoEvm ==
    <<"0", "x", "7", "f", "3", "6", "7", "c", "c", "4", "1", "5", "2", "2", "c", "e", "0",
    "7", "5", "5", "3", "e", "8", "2", "3", "b", "f", "3", "b", "e", "7", "9", "a", "8",
    "8", "9", "d", "e", "b", "e", "1", "b">>
\* ("BTC", "bc1qxy2kgdygjrsqtzq2n0yrf2493p83kkfjhx0wlh")
DemoBech32 ==
    <<"b", "c", "1", "q", "x", "y", "2", "k", "g", "d", "y", "g", "j", "r", "s", "q", "t",
    "z", "q", "2", "n", "0", "y", "r", "f", "2", "4", "9", "3", "p", "8", "3", "k", "k",
    "f", "j", "h", "x", "0", "w", "l", "h">>
\* ("ETH", "invalid")
DemoInvalid == <<"i", "n", "v", "a", "l", "i", "d">>
\* a legacy base58 address (P2PKH) used as filler of generated legacy addresses
SampleBase58 ==
    <<"1", "B", "v", "B", "M", "S", "E", "Y", "s", "t", "W", "e", "t", "q", "T", "F", "n",
    "5", "A", "u", "4", "m", "4", "G", "F", "g", "7", "x", "J", "a", "N", "V", "N", "2">>

DemoSet == {<<ETH, DemoEvm>>, <<BTC, DemoBech32>>}
DemoVersion ==
    [source |-> "DEMO", retrieved_at_utc |-> "utcnow", sha256 |-> "demo", uri |-> "demo"]

\* ------------------------------------------------------- generated inputs
\* The first k characters of the endless repetition of `body`.
Fill(body, k) == [i \in 1..k |-> body[((i - 1) % Len(body)) + 1]]
\* Every string of NVar characters over `alphabet`.
VarStrings(alphabet) == [1..NVar -> alphabet]
\* str.swapcase(), used to build case variants of an input
swapcase(s) ==
    [i \in 1..Len(s) |->
        IF s[i] \in UpperLetters THEN lowerCh(s[i]) ELSE upperCh(s[i])]
Cased(s, up) == IF up THEN upper(s) ELSE s

\* surrounding whitespace of an input: none, or some on both sides
PadInputs == {<< <<>>, <<>> >>, << <<" ">>, <<"\t", " ">> >>}

\* EVM-shaped inputs: with `0x`, with `0X` and bare; 39, 40 and 41 digits;
\* hex and non-hex characters; lower, upper and mixed case.
EvmPrefixInputs == {<<"0", "x">>, <<"0", "X">>, <<>>}
EvmAlphabet == {"a", "A", "g"}
EvmLenInputs == {EvmHexDigits - 1, EvmHexDigits, EvmHexDigits + 1}
EvmAddrInputs ==
    {pad[1] \o pre \o Cased(v \o Fill(SubSeq(DemoEvm, 3, Len(DemoEvm)), n - NVar), up) \o pad[2] :
        pad \in PadInputs, pre \in EvmPrefixInputs, v \in VarStrings(EvmAlphabet),
        n \in EvmLenInputs, up \in BOOLEAN}

\* native-segwit-shaped inputs: the three prefixes in either case and a wrong
\* one; 19, 20, 90 and 91 data characters.
SegwitPrefixInputs == {Bc1, upper(Bc1), Tb1, Bcrt1, <<"b", "c", "2">>}
SegwitAlphabet == {"q", "Q", "_"}
SegwitLenInputs ==
    {Bech32MinData - 1, Bech32MinData, Bech32MaxData, Bech32MaxData + 1}
SegwitAddrInputs ==
    {pad[1] \o pre \o Cased(v \o Fill(SubSeq(DemoBech32, 4, Len(DemoBech32)), n - NVar), up) \o pad[2] :
        pad \in PadInputs, pre \in SegwitPrefixInputs, v \in VarStrings(SegwitAlphabet),
        n \in SegwitLenInputs, up \in BOOLEAN}

\* legacy-base58-shaped inputs: leading 1, 3 and 2; tails of 24, 25, 34 and 35
\* characters; `l` is outside the base58 alphabet, `L` inside.
LegacyFirstInputs == {"1", "3", "2"}
LegacyAlphabet == {"z", "Z", "l"}
LegacyLenInputs ==
    {Base58MinTail - 1, Base58MinTail, Base58MaxTail, Base58MaxTail + 1}
LegacyAddrInputs ==
    {pad[1] \o <<f>> \o v \o Fill(SubSeq(SampleBase58, 2, Len(SampleBase58)), n - NVar) \o pad[2] :
        pad \in PadInputs, f \in LegacyFirstInputs, v \in VarStrings(LegacyAlphabet),
        n \in LegacyLenInputs}

MiscAddrInputs == {<<>>, <<" ">>, DemoInvalid, DemoEvm, DemoBech32, SampleBase58}

EvmChainInputs == EvmFamily \cup {lower(ETH), <<" ">> \o lower(ETH) \o <<" ">>}
BtcChainInputs == {BTC, XBT, lower(XBT), BTC \o <<" ">>}
OtherChainInputs == {TRX, <<>>}

\* the (chain, address) arguments of a call
CallInputs ==
    (((EvmChainInputs \X EvmAddrInputs)
        \cup (BtcChainInputs \X (SegwitAddrInputs \cup LegacyAddrInputs)))
        \cup ({TRX} \X ((EvmAddrInputs \cup SegwitAddrInputs) \cup LegacyAddrInputs)))
    \cup ((((EvmChainInputs \cup BtcChainInputs) \cup OtherChainInputs) \X MiscAddrInputs)
        \cup (({ETH} \X LegacyAddrInputs) \cup ({BTC} \X EvmAddrInputs)))

OtherTicker(c) == IF c = BTC THEN XBT ELSE IF c = XBT THEN BTC ELSE c

\* the sanctioned_set arguments of a call on (chain, address): the empty set,
\* the set of main(), and sets holding the pair under which the address would
\* be stored, its case variants, and the pair under the stripped or aliased tag
SetInputs(chain, address) ==
    LET stored == <<upper(chain), canonicalize(chain, address)>>
        low == <<upper(chain), lower(strip(address))>>
        swapped == <<upper(chain), swapcase(strip(address))>>
        tagged == {<<strip(upper(chain)), canonicalize(chain, address)>>,
                   <<OtherTicker(strip(upper(chain))), canonicalize(chain, address)>>}
    IN  {{}, DemoSet, {stored}, {low}, {swapped}, tagged \ {stored},
         {stored, low, swapped} \cup tagged}

\* ListVersion(source="UNKNOWN", ..."2000-01-01T00:00:00", sha256="", uri="")
DefaultVersion ==
    [source |-> "UNKNOWN", retrieved_at_utc |-> "2000-01-01T00:00:00",
     sha256 |-> "", uri |-> ""]
VersionInputs == {DemoVersion, DefaultVersion}

\* ------------------------------------------------- documents and dicts
\* A Python dict is a function from its keys; dict.get(k, default):
get(d, k, default) == IF k \in DOMAIN d THEN d[k] ELSE default
EmptyDict == <<>>

Item(chain, address) == ("chain" :> chain) @@ ("address" :> address)
\* entries of a list document: valid and invalid for their chain, with a
\* chain tag in lower case and padded, under either Bitcoin ticker, and two
\* entries that lack a key
ItemInputs ==
    {Item(<<" ">> \o lower(ETH) \o <<" ">>, <<"0", "x">> \o upper(SubSeq(DemoEvm, 3, Len(DemoEvm)))),
     Item(ETH, SubSeq(DemoEvm, 3, Len(DemoEvm))),
     Item(XBT, DemoBech32),
     Item(BTC, SampleBase58),
     ("address" :> DemoEvm),
     ("chain" :> ETH)}

\* the "metadata" block of the docstring of load_sanctioned_addresses
FullMetadata ==
    [source |-> "OFAC_SDN", retrieved_at_utc |-> "2026-02-15T00:00:00",
     sha256 |-> "abc123", uri |-> "https://"]
\* documents without "metadata", and with only some of its fields
MetadataInputs == {EmptyDict, ("metadata" :> FullMetadata), ("metadata" :> ("source" :> "OFAC_SDN"))}

AddressLists == UNION {[1..n -> ItemInputs] : n \in 0..MaxDocLen}
\* documents with and without the "addresses" array
DocInputs ==
    {m @@ ("addresses" :> l) : m \in MetadataInputs, l \in AddressLists}
        \cup MetadataInputs

\* ------------------------------------------------------------------ state
VARIABLES
    arg,    \* the <<chain, address>> a caller is about to pass
    fn,     \* the completed call of canonicalize, syntactic_validate or
            \* screen_exact_match on arg: its arguments and what it returned
    file,   \* the parsed JSON document at json_path
    lpc,    \* load_sanctioned_addresses: "idle", "loop", "returned", "raised"
    idx,    \* index of the next element of the `for item in ...` loop
    lset,   \* the loader's local `sanctioned_set`: a reference into heap
    lver,   \* the loader's local `list_version`
    heap,   \* the set objects alive: reference -> contents
    cur,    \* the caller's <<sanctioned_set, list_version>>
    scr     \* the screening call of the caller's other thread

vars == <<arg, fn, file, lpc, idx, lset, lver, heap, cur, scr>>
fnVars == <<arg, fn>>
sysVars == <<file, lpc, idx, lset, lver, heap, cur, scr>>

NoCall ==
    [op |-> "none", chain |-> <<>>, address |-> <<>>, set |-> {},
     list_version |-> DefaultVersion, looked_up |-> FALSE, ret |-> <<>>]

\* no object
NoRef == 0

\* a set object: its contents; `sealed` once the loader that built it has
\* returned it; `origin` tells the literal of main() from a loaded set
Object(set, sealed, origin) == [set |-> set, sealed |-> sealed, origin |-> origin]

NoScreen ==
    [pc |-> "idle", chain |-> <<>>, address |-> <<>>, ref |-> NoRef,
     list_version |-> DefaultVersion, passed |-> {}, observed |-> Object({}, TRUE, "demo"),
     looked_up |-> FALSE,
     ret |-> ScreenResult(<<>>, <<>>, FALSE, RiskNone, ReasonMiss, DefaultVersion)]

\* main(): the demo set and its version are what the caller screens against
SysInit ==
    /\ lpc = "idle"
    /\ idx = 1
    /\ lset = NoRef
    /\ lver = DefaultVersion
    /\ heap = (1 :> Object(DemoSet, TRUE, "demo"))
    /\ cur = <<1, DemoVersion>>
    /\ scr = NoScreen

\* A caller holding any of the generated arguments, before the call.
InitFn ==
    /\ arg \in CallInputs
    /\ fn = NoCall
    /\ file = EmptyDict
    /\ SysInit

\* ------------------------------------------------- calls of the functions
CallCanonicalize ==
    /\ fn.op = "none"
    /\ fn' = [NoCall EXCEPT !.op = "canonicalize", !.chain = arg[1],
                            !.address = arg[2],
                            !.ret = canonicalize(arg[1], arg[2])]
    /\ UNCHANGED <<arg, sysVars>>

CallValidate ==
    /\ fn.op = "none"
    /\ fn' = [NoCall EXCEPT !.op = "syntactic_validate", !.chain = arg[1],
                            !.address = arg[2],
                            !.ret = syntactic_validate(arg[1], arg[2])]
    /\ UNCHANGED <<arg, sysVars>>

\* line 117 is reached only past the early return of lines 106-114
ReachesLookup(chain, address) == syntactic_validate(chain, address)

CallScreen ==
    /\ fn.op = "none"
    /\ \E v \in VersionInputs, S \in SetInputs(arg[1], arg[2]) :
            fn' = [NoCall EXCEPT !.op = "screen_exact_match", !.chain = arg[1],
                                 !.address = arg[2], !.set = S, !.list_version = v,
                                 !.looked_up = ReachesLookup(arg[1], arg[2]),
                                 !.ret = screen_exact_match(arg[1], arg[2], S, v)]
    /\ UNCHANGED <<arg, sysVars>>

FnNext == CallCanonicalize \/ CallValidate \/ CallScreen

SpecFn == InitFn /\ [][FnNext]_vars

\* ------------------------------------------- load_sanctioned_addresses
\* data.get("addresses", [])
Addresses == get(file, "addresses", <<>>)

\* lines 161-167
ListVersionOf(data) ==
    LET metadata == get(data, "metadata", EmptyDict)
    IN  [source |-> get(metadata, "source", "UNKNOWN"),
         retrieved_at_utc |-> get(metadata, "retrieved_at_utc", "2000-01-01T00:00:00"),
         sha256 |-> get(metadata, "sha256", ""),
         uri |-> get(metadata, "uri", "")]

\* a reference no live object has
FreshRef == SetMin({r \in 1..(Cardinality(DOMAIN heap) + 1) : r \notin DOMAIN heap})
\* the heap without the objects nothing refers to any more
Collect(h, live) == [r \in (DOMAIN h) \cap live |-> h[r]]

\* the loader filling a set the caller already names (a shared module-level
\* set instead of a local one)
LoadStart_shared ==
    /\ lpc \in {"idle", "returned", "raised"}
    /\ lset' = FreshRef
    /\ heap' = (FreshRef :> Object({}, FALSE, "loaded")) @@ heap
    /\ cur' = <<FreshRef, cur[2]>>
    /\ lver' = ListVersionOf(file)
    /\ idx' = 1
    /\ lpc' = "loop"
    /\ UNCHANGED <<file, scr, fnVars>>

\* lines 158-169: read the document, build list_version, sanctioned_set = set()
LoadStart ==
    /\ lpc \in {"idle", "returned", "raised"}
    /\ lset' = FreshRef
    /\ heap' = (FreshRef :> Object({}, FALSE, "loaded")) @@ heap
    /\ lver' = ListVersionOf(file)
    /\ idx' = 1
    /\ lpc' = "loop"
    /\ UNCHANGED <<file, cur, scr, fnVars>>

\* the loop skipping an element that lacks a key (item.get(...) and continue)
LoadItem_skipbad ==
    /\ lpc = "loop"
    /\ idx <= Len(Addresses)
    /\ LET item == Addresses[idx]
       IN  IF {"chain", "address"} \subseteq DOMAIN item
           THEN heap' = [heap EXCEPT ![lset].set =
                            @ \cup {<<upper(item["chain"]),
                                      canonicalize(item["chain"], item["address"])>>}]
           ELSE UNCHANGED heap
    /\ idx' = idx + 1
    /\ UNCHANGED <<file, lpc, lset, lver, cur, scr, fnVars>>

\* lines 170-174: one element of the loop; item["chain"] and item["address"]
\* raise KeyError, which ends the call and drops its local set
LoadItem ==
    /\ lpc = "loop"
    /\ idx <= Len(Addresses)
    /\ LET item == Addresses[idx]
       IN  IF {"chain", "address"} \subseteq DOMAIN item
           THEN /\ heap' = [heap EXCEPT ![lset].set =
                                @ \cup {<<upper(item["chain"]),
                                          canonicalize(item["chain"], item["address"])>>}]
                /\ idx' = idx + 1
                /\ UNCHANGED lpc
           ELSE /\ heap' = Collect(heap, (DOMAIN heap) \ {lset})
                /\ lpc' = "raised"
                /\ UNCHANGED idx
    /\ UNCHANGED <<file, lset, lver, cur, scr, fnVars>>

\* line 176 (and the assignment of line 184): the caller's names are rebound
\* to the returned set and version; the set they named before stays alive
\* only while a screening call still holds it
LoadReturn ==
    /\ lpc = "loop"
    /\ idx > Len(Addresses)
    /\ lpc' = "returned"
    /\ cur' = <<lset, lver>>
    /\ heap' = Collect([heap EXCEPT ![lset].sealed = TRUE],
                       {lset} \cup (IF scr.pc = "called" THEN {scr.ref} ELSE {}))
    /\ UNCHANGED <<file, idx, lset, lver, scr, fnVars>>

\* ------------------------------------------------ concurrent screening
\* what the caller screens while `file` is the list: the listed pairs, the
\* listed Bitcoin addresses under the other ticker, and the demo address
CallsFor(d) ==
    LET l == get(d, "addresses", <<>>)
        listed == {<<l[i]["chain"], l[i]["address"]>> :
                      i \in {k \in 1..Len(l) : {"chain", "address"} \subseteq DOMAIN l[k]}}
    IN  (listed \cup {<<OtherTicker(e[1]), e[2]>> : e \in listed}) \cup {<<ETH, DemoEvm>>}

\* the call: the arguments are bound to the caller's current set and version
ScreenCall ==
    /\ scr.pc \in {"idle", "done"}
    /\ \E in \in CallsFor(file) :
          scr' = [NoScreen EXCEPT !.pc = "called", !.chain = in[1], !.address = in[2],
                                  !.ref = cur[1], !.list_version = cur[2],
                                  !.passed = heap[cur[1]].set]
    /\ UNCHANGED <<file, lpc, idx, lset, lver, heap, cur, fnVars>>

\* lines 106-137 on the set object the call was given
ScreenBody ==
    /\ scr.pc = "called"
    /\ scr' = [scr EXCEPT !.pc = "done", !.ref = NoRef,
                          !.observed = heap[scr.ref],
                          !.looked_up = ReachesLookup(scr.chain, scr.address),
                          !.ret = screen_exact_match(scr.chain, scr.address,
                                                     heap[scr.ref].set, scr.list_version)]
    /\ heap' = Collect(heap, {cur[1]} \cup (IF lpc = "loop" THEN {lset} ELSE {}))
    /\ UNCHANGED <<file, lpc, idx, lset, lver, cur, fnVars>>

Init ==
    /\ file \in DocInputs
    /\ SysInit
    /\ arg = <<ETH, DemoEvm>>
    /\ fn = NoCall

Next == LoadStart \/ LoadItem \/ LoadReturn \/ ScreenCall \/ ScreenBody

Spec == Init /\ [][Next]_vars

\* ================================================================= claims
IsHex40(s) == Len(s) = 40 /\ \A i \in 1..Len(s) : s[i] \in HexClass
HasPrefix0x(s) == Len(s) >= 2 /\ s[1] = "0" /\ s[2] = "x"
Drop2(s) == SubSeq(s, 3, Len(s))
DispatchTag(chain) == strip(upper(chain))
IsSegwitShaped(s) == \E p \in SegwitPrefixes : startswith(lower(s), p)
Screened == fn.op = "screen_exact_match"

\* C1: on a syntactically valid address screen_exact_match returns
\* (true, 100, exact_match_authoritative_sanctions_address) exactly when
\* (upper(chain), canonicalize(chain, address)) is in the sanctioned set, and
\* (false, 0, no_exact_match) otherwise.
C1_ValidVerdict ==
    (Screened /\ syntactic_validate(fn.chain, fn.address)) =>
        IF <<upper(fn.chain), canonicalize(fn.chain, fn.address)>> \in fn.set
        THEN /\ fn.ret.match = TRUE
             /\ fn.ret.risk_score = 100
             /\ fn.ret.reason = "exact_match_authoritative_sanctions_address"
        ELSE /\ fn.ret.match = FALSE
             /\ fn.ret.risk_score = 0
             /\ fn.ret.reason = "no_exact_match"

\* a hit under a chain argument with surrounding whitespace
C1_Witness ==
    /\ Screened
    /\ fn.ret.match = TRUE
    /\ fn.chain # DispatchTag(fn.chain)
    /\ fn.address # strip(fn.address)

\* C2 as stated: on an EVM-family chain syntactic_validate is true iff the
\* trimmed address is an optional `0x` followed by exactly 40 hex characters
\* (so a bare 40-hex address is accepted).
C2_OptionalPrefix ==
    (fn.op = "syntactic_validate" /\ DispatchTag(fn.chain) \in EvmFamily) =>
        LET a == strip(fn.address)
        IN  fn.ret <=> (IsHex40(a) \/ (HasPrefix0x(a) /\ IsHex40(Drop2(a))))

\* C2 amended: on an EVM-family chain syntactic_validate is true iff the
\* trimmed address is `0x` followed by exactly 40 hex characters of either
\* case; the prefix is mandatory, so a bare 40-hex address is rejected.
C2_MandatoryPrefix ==
    (fn.op = "syntactic_validate" /\ DispatchTag(fn.chain) \in EvmFamily) =>
        LET a == strip(fn.address)
        IN  fn.ret <=> (HasPrefix0x(a) /\ IsHex40(Drop2(a)))

\* an accepted EVM address of mixed case with surrounding whitespace
C2_Witness ==
    /\ fn.op = "syntactic_validate"
    /\ DispatchTag(fn.chain) \in EvmFamily
    /\ fn.ret = TRUE
    /\ fn.address # strip(fn.address)
    /\ lower(fn.address) # fn.address
    /\ upper(Drop2(strip(fn.address))) # Drop2(strip(fn.address))

\* the case variants of a string: all lower, all upper, every letter swapped
CaseVariants(s) == {lower(s), upper(s), swapcase(s)}

\* C6: the match value is the same for EVM addresses `0x` + 40 hex digits
\* that differ only in the case of the digits (EVM-family chain) and for
\* native-segwit addresses that differ only in letter case (Bitcoin); the
\* upper-case form of a stored lower-case address matches.
C6_CaseInvariant ==
    Screened =>
        /\ (DispatchTag(fn.chain) \in EvmFamily
                /\ HasPrefix0x(fn.address) /\ IsHex40(Drop2(fn.address))) =>
            /\ \A b \in CaseVariants(Drop2(fn.address)) :
                 screen_exact_match(fn.chain, <<"0", "x">> \o b, fn.set,
                                    fn.list_version).match = fn.ret.match
            /\ (<<upper(fn.chain), lower(fn.address)>> \in fn.set) => fn.ret.match
        /\ (DispatchTag(fn.chain) \in BitcoinTickers /\ IsSegwitShaped(fn.address)) =>
            /\ \A b \in CaseVariants(fn.address) :
                 screen_exact_match(fn.chain, b, fn.set,
                                    fn.list_version).match = fn.ret.match
            /\ (/\ <<upper(fn.chain), lower(fn.address)>> \in fn.set
                /\ BTC_BECH32_RE(lower(fn.address))) => fn.ret.match

\* the all-upper-case digits of a stored lower-case EVM address are a hit
C6_Witness ==
    /\ Screened
    /\ DispatchTag(fn.chain) \in EvmFamily
    /\ HasPrefix0x(fn.address)
    /\ Drop2(fn.address) = upper(Drop2(fn.address))
    /\ Drop2(fn.address) # lower(Drop2(fn.address))
    /\ fn.set = {<<upper(fn.chain), lower(fn.address)>>}
    /\ fn.ret.match = TRUE

\* C7: for a Bitcoin ticker and a legacy base58 address canonicalize returns
\* the trimmed address unchanged, and screening a case-altered variant of the
\* only stored address never matches.
C7_LegacyCaseSensitive ==
    LET a == strip(fn.address)
    IN  (DispatchTag(fn.chain) \in BitcoinTickers /\ ~IsSegwitShaped(a)) =>
            /\ (fn.op = "canonicalize") => fn.ret = a
            /\ Screened =>
                 \A e \in fn.set :
                    (/\ fn.set = {e}
                     /\ e[2] # a
                     /\ lower(e[2]) = lower(a)) => fn.ret.match = FALSE

\* a valid legacy address screened against its valid all-lower-case variant
C7_Witness ==
    /\ Screened
    /\ DispatchTag(fn.chain) \in BitcoinTickers
    /\ BTC_BASE58_RE(strip(fn.address))
    /\ fn.set = {<<upper(fn.chain), lower(strip(fn.address))>>}
    /\ BTC_BASE58_RE(lower(strip(fn.address)))
    /\ lower(strip(fn.address)) # strip(fn.address)
    /\ fn.ret.reason = "no_exact_match"

\* C8: on a chain with a pattern, an address that fails syntactic_validate
\* gets (false, 0, invalid_address_syntax) with the supplied list_version,
\* whatever the sanctioned set holds, and the membership test is not reached.
C8_InvalidShortCircuits ==
    (/\ Screened
     /\ DispatchTag(fn.chain) \in (EvmFamily \cup BitcoinTickers)
     /\ ~syntactic_validate(fn.chain, fn.address)) =>
        /\ fn.ret = [address |-> fn.address, chain |-> fn.chain, match |-> FALSE,
                     risk_score |-> 0, reason |-> "invalid_address_syntax",
                     list_version |-> fn.list_version]
        /\ ~fn.looked_up

\* an invalid address whose own pair is in the set
C8_Witness ==
    /\ Screened
    /\ fn.ret.reason = "invalid_address_syntax"
    /\ <<upper(fn.chain), canonicalize(fn.chain, fn.address)>> \in fn.set
    /\ fn.list_version = DemoVersion

\* C9: canonicalize(chain, canonicalize(chain, a)) = canonicalize(chain, a)
C9_Idempotent ==
    (fn.op = "canonicalize") => canonicalize(fn.chain, fn.ret) = fn.ret

\* a padded upper-case segwit address, which canonicalize trims and folds
C9_Witness ==
    /\ fn.op = "canonicalize"
    /\ DispatchTag(fn.chain) \in BitcoinTickers
    /\ fn.ret # fn.address
    /\ fn.ret # strip(fn.address)
    /\ fn.ret # lower(fn.address)

\* ------------------------------------------------ claims about the loader
HasBothKeys(item) == {"chain", "address"} \subseteq DOMAIN item
SomeEntryLacksKey(d) ==
    /\ "addresses" \in DOMAIN d
    /\ \E i \in 1..Len(d["addresses"]) : ~HasBothKeys(d["addresses"][i])
LoadEnded == lpc \in {"returned", "raised"}
\* the whole set a document denotes
FullSet(d) ==
    LET l == IF "addresses" \in DOMAIN d THEN d["addresses"] ELSE <<>>
    IN  {<<upper(l[i]["chain"]), canonicalize(l[i]["chain"], l[i]["address"])>> :
            i \in {k \in 1..Len(l) : HasBothKeys(l[k])}}
Lists(d, chain, address) ==
    /\ "addresses" \in DOMAIN d
    /\ \E i \in 1..Len(d["addresses"]) : d["addresses"][i] = Item(chain, address)
ScreenedLoaded == scr.pc = "done" /\ scr.observed.origin = "loaded"

C4_TickerAlias ==
    (/\ ScreenedLoaded
     /\ scr.chain \in BitcoinTickers
     /\ syntactic_validate(scr.chain, scr.address)
     /\ Lists(file, OtherTicker(scr.chain), scr.address)) => scr.ret.match = TRUE

\* C5: every screening call tests membership in a fully formed set, the one
\* it was passed; the set under construction is reachable by no call before
\* the loader returns it, and no returned set changes afterwards.
C5_State ==
    /\ heap[cur[1]].sealed
    /\ (lpc = "loop") =>
            /\ ~heap[lset].sealed
            /\ lset # cur[1]
            /\ (scr.pc = "called") => scr.ref # lset
    /\ (scr.pc = "called") =>
            /\ heap[scr.ref].sealed
            /\ heap[scr.ref].set = scr.passed
    /\ (scr.pc = "done") =>
            /\ scr.observed.sealed
            /\ scr.observed.set = scr.passed
            /\ scr.observed.set =
                 IF scr.observed.origin = "demo" THEN DemoSet ELSE FullSet(file)

C5_Step ==
    \A r \in DOMAIN heap : (heap[r].sealed /\ r \in DOMAIN heap') => heap'[r] = heap[r]

C5_FullyFormed == [](C5_State) /\ [][C5_Step]_vars

\* a call in flight on the old set while the loader holds a partly filled one
C5_Witness ==
    /\ scr.pc = "called"
    /\ lpc = "loop"
    /\ idx > 1
    /\ idx <= Len(Addresses)
    /\ heap[lset].set # {}
    /\ heap[lset].set # FullSet(file)

\* C10: screening a listed (chain, address), as listed, against the set
\* loaded from the document is a match.
C10_RoundTrip ==
    (ScreenedLoaded /\ Lists(file, scr.chain, scr.address)) => scr.ret.match = TRUE

====
